---- MODULE Spec2Model ----
(***************************************************************************)
(* Model of the ts-errors-gpt editor extension (src/src/extension.ts).     *)
(*                                                                         *)
(* Two commands are registered by activate():                              *)
(*   extension.getTsErrors  - collect the semantic diagnostics of the      *)
(*       active TypeScript document, let the user pick one, read the       *)
(*       stored API key, ask the completion service for an explanation     *)
(*       and show it in a webview panel;                                   *)
(*   extension.storeApiKey  - ask for an API key and store it.             *)
(*                                                                         *)
(* The host runs command handlers on one event loop: a handler runs        *)
(* without interruption from one await to the next.  Every action of the   *)
(* model is one such uninterrupted run.                                    *)
(*                                                                         *)
(* JavaScript strings are TLA+ strings; the value undefined is the token   *)
(* `undefined' below, which is outside every string domain of the model.   *)
(***************************************************************************)
EXTENDS Integers, Sequences, FiniteSets, TLC

\* ------------------------------------------------------------- bounds
\* invocations of extension.getTsErrors in one behaviour
MaxInv == 2
\* invocations of extension.storeApiKey in one behaviour
MaxStore == 1
\* diagnostics the analysis service returns for one file
MaxDiags == 2

Invocations == 1..MaxInv
StoreInvocations == 1..MaxStore

\* ------------------------------------------------- JavaScript values
undefined == "<undefined>"

\* JavaScript truthiness of a string-or-undefined value: if (v), !v, v || ''
Truthy(v) == v # undefined /\ v # ""

\* ------------------------------------------------------- environment
\* The documents an editor can show: file name |-> language and lines.
TsFile == "a.ts"
OtherFile == "notes.md"
Documents == {TsFile, OtherFile}

languageId(d) == IF d = TsFile THEN "typescript" ELSE "markdown"

Lines(d) ==
  IF d = TsFile THEN <<"let a: number = foo;", "a = 'x';">>
  ELSE <<"# notes">>

lineCount(d) == Len(Lines(d))

RECURSIVE JoinLines(_)
JoinLines(ls) ==
  IF Len(ls) = 0 THEN ""
  ELSE IF Len(ls) = 1 THEN ls[1]
  ELSE ls[1] \o "\n" \o JoinLines(Tail(ls))

\* vscode TextDocument.getText(): the whole text
getText(d) == JoinLines(Lines(d))

\* vscode TextDocument.lineAt(line): throws unless 0 <= line < lineCount
lineAtThrows(d, line) == ~(line >= 0 /\ line < lineCount(d))
lineAtText(d, line) == Lines(d)[line + 1]

\* ts.SourceFile.getLineAndCharacterOfPosition: the start offset of each
\* line (every line but the last is followed by one line break), then the
\* last line that starts at or before the position.
RECURSIVE LineStartsFrom(_, _)
LineStartsFrom(ls, at) ==
  IF Len(ls) = 0 THEN <<>>
  ELSE <<at>> \o LineStartsFrom(Tail(ls), at + Len(ls[1]) + 1)

getLineStarts(d) == LineStartsFrom(Lines(d), 0)

getLineAndCharacterOfPosition(d, pos) ==
  LET starts == getLineStarts(d)
      n == CHOOSE k \in 1..Len(starts) :
             /\ starts[k] <= pos
             /\ \A j \in 1..Len(starts) : starts[j] <= pos => j <= k
  IN [line |-> n - 1, character |-> pos - starts[n]]

\* --------------------------------------------------------- diagnostics
\* A ts.Diagnostic: file (a file name, or undefined), start (an offset into
\* the file) and messageText.  messageText is a message chain, written as
\* the sequence of its texts from the head down; a plain string s is the
\* chain <<s>>.
MessageTexts ==
  { <<"Cannot find name 'foo'.">>,
    <<"Type 'string' is not assignable to type 'number'.",
      "The expected type comes from 'a'.">> }

\* offsets of the model's diagnostics: `foo' on line 0 and the start of
\* line 1
Starts == {16, 21}

\* the diagnostics of the file, and one global diagnostic without a file
Diagnostics ==
  [file : {TsFile}, start : Starts, messageText : MessageTexts]
    \cup [file : {undefined}, start : {0},
          messageText : {<<"Cannot find global type 'Array'.">>}]

RECURSIVE SeqsUpTo(_, _)
SeqsUpTo(S, n) ==
  IF n = 0 THEN {<<>>}
  ELSE LET shorter == SeqsUpTo(S, n - 1)
       IN shorter \cup {Append(s, x) : s \in {t \in shorter : Len(t) = n - 1}, x \in S}

DiagnosticLists == SeqsUpTo(Diagnostics, MaxDiags)

RECURSIVE Indent(_)
Indent(n) == IF n = 0 THEN "" ELSE "  " \o Indent(n - 1)

\* ts.flattenDiagnosticMessageText(messageText, newLine, indent = 0)
RECURSIVE flattenFrom(_, _, _)
flattenFrom(chain, newLine, indent) ==
  IF Len(chain) = 0 THEN ""
  ELSE (IF indent > 0 THEN newLine \o Indent(indent) ELSE "")
         \o chain[1] \o flattenFrom(Tail(chain), newLine, indent + 1)

flattenDiagnosticMessageText(messageText, newLine) ==
  flattenFrom(messageText, newLine, 0)

\* the line (and character) a diagnostic resolves to
resolvePosition(diagnostic) ==
  IF diagnostic.file # undefined
  THEN getLineAndCharacterOfPosition(diagnostic.file, diagnostic.start)
  ELSE [line |-> 0, character |-> 0]

\* a lookup that keeps searching and returns the last diagnostic on the line
RECURSIVE getErrorMessageForLine_last(_, _)
getErrorMessageForLine_last(line, diagnostics) ==
  IF Len(diagnostics) = 0 THEN undefined
  ELSE LET later == getErrorMessageForLine_last(line, Tail(diagnostics))
       IN IF later # undefined THEN later
          ELSE IF resolvePosition(diagnostics[1]).line = line
          THEN flattenDiagnosticMessageText(diagnostics[1].messageText, "\n")
          ELSE undefined

\* getErrorMessageForLine: the first diagnostic on the line, or undefined
RECURSIVE getErrorMessageForLine(_, _)
getErrorMessageForLine(line, diagnostics) ==
  IF Len(diagnostics) = 0 THEN undefined
  ELSE IF resolvePosition(diagnostics[1]).line = line
       THEN flattenDiagnosticMessageText(diagnostics[1].messageText, "\n")
       ELSE getErrorMessageForLine(line, Tail(diagnostics))

\* the item with the zero-based line in its label
errorLineOf_zeroBasedLabel(diagnostic) ==
  LET lc == resolvePosition(diagnostic)
      error == flattenDiagnosticMessageText(diagnostic.messageText, "\n")
  IN [label |-> "Line " \o ToString(lc.line) \o ": " \o error,
      line |-> lc.line,
      character |-> lc.character,
      error |-> error]

\* the item keeping the one-based line of its label
errorLineOf_oneBasedLine(diagnostic) ==
  LET lc == resolvePosition(diagnostic)
      error == flattenDiagnosticMessageText(diagnostic.messageText, "\n")
  IN [label |-> "Line " \o ToString(lc.line + 1) \o ": " \o error,
      line |-> lc.line + 1,
      character |-> lc.character,
      error |-> error]

\* the quick-pick item built for one diagnostic
errorLineOf(diagnostic) ==
  LET lc == resolvePosition(diagnostic)
      error == flattenDiagnosticMessageText(diagnostic.messageText, "\n")
  IN [label |-> "Line " \o ToString(lc.line + 1) \o ": " \o error,
      line |-> lc.line,
      character |-> lc.character,
      error |-> error]

\* diagnostics.map(...): one item per diagnostic, in order
errorLinesOf(diagnostics) ==
  [k \in 1..Len(diagnostics) |-> errorLineOf(diagnostics[k])]

\* ------------------------------------------------- completion service
ApiKeys == {"sk-1", "sk-2"}

\* what the user can leave the input box with: dismissed, empty, or a key
InputBoxAnswers == {undefined, ""} \cup ApiKeys

\* What createChatCompletion can do: throw (ok = FALSE), or answer with
\* data.choices, written as the sequence of the candidates' message.content.
CompletionResponses ==
  { [ok |-> FALSE, choices |-> <<>>],
    [ok |-> TRUE, choices |-> <<>>],
    [ok |-> TRUE, choices |-> <<undefined>>],
    [ok |-> TRUE, choices |-> <<"'foo' is not declared.">>] }

\* getOpenAISuggestion, the prompt: the template's literal pieces and the
\* three interpolated parameters, in template order
promptOf(error, codeSnippet, lineSnippet) ==
  << "Act as a TypeScript engineer. You received the following error: ",
     error,
     ". This is the line that it is thrown from: ",
     lineSnippet,
     ". Here is the surrounding code with the snippet I pasted included: ",
     codeSnippet,
     ". Explain the error with better detail from the context." >>

\* getOpenAISuggestion, the request it sends
requestOf(error, codeSnippet, apiKey, lineSnippet) ==
  [apiKey |-> apiKey,
   model |-> "gpt-3.5-turbo",
   content |-> promptOf(error, codeSnippet, lineSnippet)]

\* line 60 without its `|| ''' fallback
suggestionOf_noFallback(response) ==
  IF ~response.ok THEN ""
  ELSE IF Len(response.choices) = 0 THEN undefined
  ELSE response.choices[1]

\* getOpenAISuggestion, after the await: response?.data?.choices[0]
\* ?.message?.content || '' in the try block, '' after the catch
suggestionOf(response) ==
  IF ~response.ok THEN ""
  ELSE IF Len(response.choices) = 0 THEN ""
  ELSE IF Truthy(response.choices[1]) THEN response.choices[1]
  ELSE ""

\* ---------------------------------------------------- secret storage
\* context.secrets: a map from key to string
secretsGet(store, key) ==
  IF key \in DOMAIN store THEN store[key] ELSE undefined

\* a store that keeps the value a key already has
secretsStore_keepExisting(store, key, value) ==
  [k \in (DOMAIN store) \cup {key} |-> IF k \in DOMAIN store THEN store[k] ELSE value]

secretsStore(store, key, value) ==
  [k \in (DOMAIN store) \cup {key} |-> IF k = key THEN value ELSE store[k]]

EmptySecrets == [k \in {} |-> undefined]

\* the storage outlives the session: a key stored in an earlier session
StoredEarlier == [k \in {"apiKey"} |-> "sk-0"]

\* --------------------------------------------------------------- state
VARIABLES
  activeTextEditor,   \* vscode.window.activeTextEditor: a file name or undefined
  semanticDiagnostics,\* what the analysis service reports for TsFile
  secrets,            \* context.secrets
  pc,                 \* per getTsErrors invocation: where it is suspended
  document,           \* ... the document the handler passed to getTypescriptErrors
  diagnostics,        \* ... program.getSemanticDiagnostics(sourceFile)
  errorLines,         \* ... the quick-pick items built from them
  selectedErrorLine,  \* ... index of the picked item (0: none)
  errorMessage,       \* ... getErrorMessageForLine's result
  request,            \* ... the createChatCompletion request in flight
  response,           \* ... how that request settled
  trace,              \* ... its calls to the host and the services, in order
  spc,                \* per storeApiKey invocation: where it is suspended
  input,              \* ... the input box's answer
  strace              \* ... its calls to the host, in order

vars == <<activeTextEditor, semanticDiagnostics, secrets, pc, document, diagnostics,
          errorLines, selectedErrorLine, errorMessage, request, response, trace,
          spc, input, strace>>

envVars == <<activeTextEditor, semanticDiagnostics, secrets>>
invVars == <<pc, document, diagnostics, errorLines, selectedErrorLine, errorMessage,
             request, response, trace>>
storeVars == <<spc, input, strace>>

Ev(c, a) == [call |-> c, arg |-> a]

NoRequest == [apiKey |-> undefined, model |-> undefined, content |-> <<>>]
NoResponse == [ok |-> FALSE, choices |-> <<>>]

Init ==
  /\ activeTextEditor \in {undefined} \cup Documents
  /\ semanticDiagnostics \in DiagnosticLists
  /\ secrets \in {EmptySecrets, StoredEarlier}
  /\ pc = [i \in Invocations |-> "idle"]
  /\ document = [i \in Invocations |-> undefined]
  /\ diagnostics = [i \in Invocations |-> <<>>]
  /\ errorLines = [i \in Invocations |-> <<>>]
  /\ selectedErrorLine = [i \in Invocations |-> 0]
  /\ errorMessage = [i \in Invocations |-> undefined]
  /\ request = [i \in Invocations |-> NoRequest]
  /\ response = [i \in Invocations |-> NoResponse]
  /\ trace = [i \in Invocations |-> <<>>]
  /\ spc = [j \in StoreInvocations |-> "idle"]
  /\ input = [j \in StoreInvocations |-> undefined]
  /\ strace = [j \in StoreInvocations |-> <<>>]

\* ------------------------------------------ extension.getTsErrors
\* The handler after `await getTypescriptErrors(...)' (lines 98-105), given
\* whether the collector returned undefined and else the returned length:
\* reading .length of undefined throws a TypeError nothing catches.
handlerResume(tr, returnedUndefined, length) ==
  IF returnedUndefined
  THEN [pc |-> "rejected", trace |-> Append(tr, Ev("throw", "TypeError"))]
  ELSE IF length = 0
  THEN [pc |-> "done",
        trace |-> Append(tr, Ev("showInformationMessage",
                                "No TypeScript errors found."))]
  ELSE [pc |-> "done",
        trace |-> Append(tr, Ev("showErrorMessage",
                   "Found " \o ToString(length) \o " TypeScript errors."))]

\* line 150 with its condition dropped
configMissing_never(tsConfigFile) == FALSE

\* line 150: if (!tsConfigFile)
configMissing(tsConfigFile) == ~Truthy(tsConfigFile)

\* line 198 with its condition dropped
apiKeyMissing_never(apiKey) == FALSE

\* line 198: if (!apiKey)
apiKeyMissing(apiKey) == ~Truthy(apiKey)

\* getTypescriptErrors from its entry to its first await (lines 142-190):
\* either an early `return []' or the quick pick is opened.
collect(doc, workspaceFolders, tsConfigFile, sourceFile, diags) ==
  IF ~workspaceFolders
  THEN [abort |-> TRUE, diagnostics |-> <<>>,
        trace |-> <<Ev("showErrorMessage", "No workspace folder is open.")>>]
  ELSE IF configMissing(tsConfigFile)
  THEN [abort |-> TRUE, diagnostics |-> <<>>,
        trace |-> <<Ev("findConfigFile", tsConfigFile),
                    Ev("showErrorMessage",
                       "No tsconfig.json file found in the workspace.")>>]
  ELSE IF ~Truthy(sourceFile)
  THEN [abort |-> TRUE, diagnostics |-> <<>>,
        trace |-> <<Ev("findConfigFile", tsConfigFile),
                    Ev("createProgram", doc),
                    Ev("showErrorMessage",
                       "Failed to retrieve the SourceFile object.")>>]
  ELSE [abort |-> FALSE, diagnostics |-> diags,
        trace |-> <<Ev("findConfigFile", tsConfigFile),
                    Ev("createProgram", doc),
                    Ev("getSemanticDiagnostics", ToString(Len(diags))),
                    Ev("showQuickPick", ToString(Len(errorLinesOf(diags))))>>]

\* set invocation i's control state and trace, leave its other locals
Continue(i, to, tr) ==
  /\ pc' = [pc EXCEPT ![i] = to]
  /\ trace' = [trace EXCEPT ![i] = tr]

\* The command is invoked: lines 86-98, then getTypescriptErrors up to the
\* quick pick, or, when it returns at once, the rest of the handler.
GetTsErrors(i) ==
  /\ pc[i] = "idle"
  /\ \A h \in Invocations : h < i => pc[h] # "idle"
  /\ UNCHANGED <<envVars, storeVars, selectedErrorLine, errorMessage, request,
                 response>>
  /\ LET activeEditor == activeTextEditor IN
     IF ~Truthy(activeEditor)
     THEN /\ Continue(i, "done", <<Ev("showErrorMessage", "No active editor found.")>>)
          /\ UNCHANGED <<document, diagnostics, errorLines>>
     ELSE IF languageId(activeEditor) # "typescript"
     THEN /\ Continue(i, "done", <<Ev("showErrorMessage",
                       "This command only works with TypeScript files.")>>)
          /\ UNCHANGED <<document, diagnostics, errorLines>>
     ELSE \E workspaceFolders \in BOOLEAN,
             tsConfigFile \in {undefined, "tsconfig.json"},
             sourceFile \in {undefined, activeEditor} :
            LET c == collect(activeEditor, workspaceFolders, tsConfigFile,
                             sourceFile, semanticDiagnostics)
                h == handlerResume(c.trace, FALSE, Len(c.diagnostics))
            IN /\ document' = [document EXCEPT ![i] = activeEditor]
               /\ diagnostics' = [diagnostics EXCEPT ![i] = c.diagnostics]
               /\ errorLines' = [errorLines EXCEPT ![i] = errorLinesOf(c.diagnostics)]
               /\ IF c.abort
                  THEN Continue(i, h.pc, h.trace)
                  ELSE Continue(i, "showQuickPick", c.trace)

\* The quick pick is answered with item `choice', or dismissed (choice 0):
\* lines 188-195 and, when the function returns here, 217-222 and 100-105.
QuickPickAnswer(i, choice) ==
  /\ pc[i] = "showQuickPick"
  /\ choice \in 0..Len(errorLines[i])
  /\ UNCHANGED <<envVars, storeVars, document, diagnostics, errorLines, request,
                 response>>
  /\ selectedErrorLine' = [selectedErrorLine EXCEPT ![i] = choice]
  /\ IF choice = 0
     THEN LET h == handlerResume(Append(trace[i], Ev("picked", undefined)),
                                 FALSE, Len(diagnostics[i]))
          IN /\ Continue(i, h.pc, h.trace)
             /\ UNCHANGED errorMessage
     ELSE LET item == errorLines[i][choice]
              message == getErrorMessageForLine(item.line, diagnostics[i])
              picked == Append(trace[i], Ev("picked", item.label))
          IN /\ errorMessage' = [errorMessage EXCEPT ![i] = message]
             /\ IF Truthy(message)
                THEN Continue(i, "secrets.get", picked)
                ELSE LET h == handlerResume(
                                Append(picked, Ev("showErrorMessage",
                                       "No error found on the selected line.")),
                                FALSE, Len(diagnostics[i]))
                     IN Continue(i, h.pc, h.trace)

\* context.secrets.get('apiKey') resolves: lines 197-215, up to the await
\* inside getOpenAISuggestion (line 48).  The two `return;' statements
\* return undefined to the handler; lineAt throws through both functions.
SecretsGetResolves(i) ==
  /\ pc[i] = "secrets.get"
  /\ UNCHANGED <<envVars, storeVars, document, diagnostics, errorLines,
                 selectedErrorLine, errorMessage, response>>
  /\ LET apiKey == secretsGet(secrets, "apiKey")
         read == Append(trace[i], Ev("secrets.get", apiKey))
         activeEditor == activeTextEditor
         line == errorLines[i][selectedErrorLine[i]].line
     IN IF apiKeyMissing(apiKey)
        THEN LET h == handlerResume(
                        Append(read, Ev("showErrorMessage",
                               "API Key not found. Please store your API Key first.")),
                        TRUE, 0)
             IN /\ Continue(i, h.pc, h.trace)
                /\ UNCHANGED request
        ELSE IF ~Truthy(activeEditor)
        THEN LET h == handlerResume(
                        Append(read, Ev("showErrorMessage", "No active editor found.")),
                        TRUE, 0)
             IN /\ Continue(i, h.pc, h.trace)
                /\ UNCHANGED request
        ELSE IF lineAtThrows(activeEditor, line)
        THEN /\ Continue(i, "rejected", Append(read, Ev("throw", "Illegal value for line")))
             /\ UNCHANGED request
        ELSE LET codeSnippet == lineAtText(activeEditor, line)
                 fileContent == getText(activeEditor)
             IN /\ request' = [request EXCEPT ![i] =
                      requestOf(errorMessage[i], codeSnippet, apiKey, fileContent)]
                /\ Continue(i, "createChatCompletion",
                            Append(read, Ev("createChatCompletion", activeEditor)))

\* getOpenAISuggestion with a retry: a failed request is sent again
CompletionSettles_retry(i, settles) ==
  /\ pc[i] = "createChatCompletion"
  /\ settles \in CompletionResponses
  /\ UNCHANGED <<envVars, storeVars, document, diagnostics, errorLines,
                 selectedErrorLine, errorMessage, request>>
  /\ response' = [response EXCEPT ![i] = settles]
  /\ LET suggestion == suggestionOf(settles)
         settled == Append(trace[i],
                      Ev("settled", IF settles.ok THEN "response" ELSE "error"))
         h == handlerResume(Append(settled, Ev("displaySuggestion", suggestion)),
                            FALSE, Len(diagnostics[i]))
     IN IF settles.ok
        THEN Continue(i, h.pc, h.trace)
        ELSE Continue(i, "createChatCompletion",
                      Append(settled, Ev("createChatCompletion", "retry")))

\* The completion request settles with `response': lines 60-65, then 216,
\* 222 and 100-105.
CompletionSettles(i, settles) ==
  /\ pc[i] = "createChatCompletion"
  /\ settles \in CompletionResponses
  /\ UNCHANGED <<envVars, storeVars, document, diagnostics, errorLines,
                 selectedErrorLine, errorMessage, request>>
  /\ response' = [response EXCEPT ![i] = settles]
  /\ LET suggestion == suggestionOf(settles)
         settled == Append(trace[i],
                      Ev("settled", IF settles.ok THEN "response" ELSE "error"))
         h == handlerResume(Append(settled, Ev("displaySuggestion", suggestion)),
                            FALSE, Len(diagnostics[i]))
     IN Continue(i, h.pc, h.trace)

\* ------------------------------------------ extension.storeApiKey
\* line 113 testing only that the input box was not dismissed
apiKeyProvided_anyString(apiKey) == apiKey # undefined

\* line 113: if (apiKey)
apiKeyProvided(apiKey) == Truthy(apiKey)

\* The command is invoked: the input box opens (line 108).
StoreApiKey(j) ==
  /\ spc[j] = "idle"
  /\ \A h \in StoreInvocations : h < j => spc[h] # "idle"
  /\ spc' = [spc EXCEPT ![j] = "showInputBox"]
  /\ strace' = [strace EXCEPT ![j] = <<Ev("showInputBox", "Enter your API Key")>>]
  /\ UNCHANGED <<envVars, invVars, input>>

\* The input box is answered (lines 113-118): a truthy answer is handed to
\* context.secrets.store, anything else is reported.
InputBoxAnswer(j, answer) ==
  /\ spc[j] = "showInputBox"
  /\ answer \in InputBoxAnswers
  /\ input' = [input EXCEPT ![j] = answer]
  /\ IF apiKeyProvided(answer)
     THEN /\ spc' = [spc EXCEPT ![j] = "secrets.store"]
          /\ UNCHANGED strace
     ELSE /\ spc' = [spc EXCEPT ![j] = "done"]
          /\ strace' = [strace EXCEPT ![j] =
                 Append(@, Ev("showErrorMessage", "No API Key provided."))]
  /\ UNCHANGED <<envVars, invVars>>

\* context.secrets.store('apiKey', apiKey) takes effect and resolves
\* (lines 114-115).
SecretsStoreResolves(j) ==
  /\ spc[j] = "secrets.store"
  /\ secrets' = secretsStore(secrets, "apiKey", input[j])
  /\ spc' = [spc EXCEPT ![j] = "done"]
  /\ strace' = [strace EXCEPT ![j] =
         Append(Append(@, Ev("secrets.store", input[j])),
                Ev("showInformationMessage", "API Key stored successfully."))]
  /\ UNCHANGED <<activeTextEditor, semanticDiagnostics, invVars, input>>

\* ------------------------------------------------------- the user
\* The user opens, switches or closes the active editor.
ChangeActiveEditor(d) ==
  /\ d \in {undefined} \cup Documents
  /\ d # activeTextEditor
  /\ activeTextEditor' = d
  /\ UNCHANGED <<semanticDiagnostics, secrets, invVars, storeVars>>

Next ==
  \/ \E i \in Invocations : GetTsErrors(i)
  \/ \E i \in Invocations, choice \in 0..MaxDiags : QuickPickAnswer(i, choice)
  \/ \E i \in Invocations : SecretsGetResolves(i)
  \/ \E i \in Invocations, settles \in CompletionResponses : CompletionSettles(i, settles)
  \/ \E j \in StoreInvocations : StoreApiKey(j)
  \/ \E j \in StoreInvocations, answer \in InputBoxAnswers : InputBoxAnswer(j, answer)
  \/ \E j \in StoreInvocations : SecretsStoreResolves(j)
  \/ \E d \in {undefined} \cup Documents : ChangeActiveEditor(d)

Spec == Init /\ [][Next]_vars

\* ------------------------------------------------------ reading traces
\* the positions of the calls named c in a trace
Calls(tr, c) == {k \in 1..Len(tr) : tr[k].call = c}
Called(tr, c) == Calls(tr, c) # {}
\* the positions at which message text m was shown as an error
ErrorsShown(tr, m) == {k \in Calls(tr, "showErrorMessage") : tr[k].arg = m}
Finished(i) == pc[i] \in {"done", "rejected"}
\* the user picked an item (did not dismiss the quick pick)
Selected(tr) == \E p \in Calls(tr, "picked") : tr[p].arg # undefined
\* the credential read found a key / found none
ReadKey(tr) == \E g \in Calls(tr, "secrets.get") : Truthy(tr[g].arg)
ReadNoKey(tr) == \E g \in Calls(tr, "secrets.get") : ~Truthy(tr[g].arg)

\* ---------------------------------------------------------------- C1
\* C1: every invocation of the getTsErrors command ends normally, having
\* shown a message: none ends in an uncaught failure (the handler's use of
\* the collector's return value never fails).
C1_NoUncaughtFailure ==
  \A i \in Invocations :
    /\ pc[i] # "rejected"
    /\ pc[i] = "done" =>
         Called(trace[i], "showErrorMessage")
           \/ Called(trace[i], "showInformationMessage")

\* ---------------------------------------------------------------- C2
\* C2: a completion request is issued only after the user picked an item and,
\* after that, a non-empty credential was read from the store (the one the
\* request carries); an invocation that read no credential issues no request
\* and presents nothing.
C2_NoRequestWithoutCredential ==
  \A i \in Invocations :
    LET tr == trace[i] IN
    /\ \A r \in Calls(tr, "createChatCompletion") :
         \E p \in Calls(tr, "picked"), g \in Calls(tr, "secrets.get") :
           /\ p < g /\ g < r
           /\ tr[p].arg # undefined
           /\ Truthy(tr[g].arg)
           /\ request[i].apiKey = tr[g].arg
    /\ ReadNoKey(tr) =>
         /\ ~Called(tr, "createChatCompletion")
         /\ ~Called(tr, "displaySuggestion")
         /\ request[i] = NoRequest

\* an invocation picked an item, found no credential and has ended
C2_Witness ==
  \E i \in Invocations :
    Finished(i) /\ Selected(trace[i]) /\ ReadNoKey(trace[i])

\* ---------------------------------------------------------------- C3
\* C3: the message looked up again by the picked item's line equals the
\* message displayed in the picked item.
C3_RoundTrip ==
  \A i \in Invocations :
    selectedErrorLine[i] > 0 =>
      errorMessage[i] = errorLinesOf(diagnostics[i])[selectedErrorLine[i]].error

\* ---------------------------------------------------------------- C4
\* C4: the prompt of a request holds the diagnostic message, then the text of
\* the picked line (in the `line that it is thrown from' slot), then the
\* full text of the file (in the `surrounding code' slot).
C4_PromptOrder ==
  \A i \in Invocations :
    \A r \in Calls(trace[i], "createChatCompletion") :
      LET doc == trace[i][r].arg
          line == errorLinesOf(diagnostics[i])[selectedErrorLine[i]].line
      IN /\ request[i].content[2] = errorMessage[i]
         /\ request[i].content[4] = lineAtText(doc, line)
         /\ request[i].content[6] = getText(doc)

\* ---------------------------------------------------------------- C5
\* C5: when the analysis returns zero diagnostics, the quick pick is never
\* opened, no request is issued, and the invocation shows the informational
\* message and no error message.
C5_NoPickerWhenEmpty ==
  \A i \in Invocations :
    LET tr == trace[i] IN
    (\E k \in Calls(tr, "getSemanticDiagnostics") : tr[k].arg = "0") =>
      /\ ~Called(tr, "showQuickPick")
      /\ ~Called(tr, "createChatCompletion")
      /\ ~Called(tr, "showErrorMessage")
      /\ Finished(i) => Called(tr, "showInformationMessage")

\* ---------------------------------------------------------------- C6
\* C6: an invocation whose configuration lookup found nothing creates no
\* program and requests no semantic diagnostics.
C6_NoAnalysisWithoutConfig ==
  \A i \in Invocations :
    LET tr == trace[i] IN
    (\E k \in Calls(tr, "findConfigFile") : ~Truthy(tr[k].arg)) =>
      /\ ~Called(tr, "createProgram")
      /\ ~Called(tr, "getSemanticDiagnostics")
      /\ ~Called(tr, "showQuickPick")
      /\ ErrorsShown(tr, "No tsconfig.json file found in the workspace.") # {}

\* an invocation's configuration lookup found nothing and it has ended
C6_Witness ==
  \E i \in Invocations :
    /\ Finished(i)
    /\ \E k \in Calls(trace[i], "findConfigFile") : ~Truthy(trace[i][k].arg)

\* ---------------------------------------------------------------- C7
\* C7: an invocation that picked an item and read a credential presents a
\* suggestion before it ends.
C7_PresentationAfterCredential ==
  \A i \in Invocations :
    (Finished(i) /\ Selected(trace[i]) /\ ReadKey(trace[i])) =>
      Called(trace[i], "displaySuggestion")

\* ---------------------------------------------------------------- C8
\* C8: an invocation that picked an item and read a credential issues exactly
\* one completion request and presents exactly the text the service returned
\* for it, or the empty string if the request failed.
C8_ExactlyOneRequest ==
  \A i \in Invocations :
    LET tr == trace[i] IN
    (Finished(i) /\ Selected(tr) /\ ReadKey(tr)) =>
      /\ Cardinality(Calls(tr, "createChatCompletion")) = 1
      /\ Cardinality(Calls(tr, "displaySuggestion")) = 1
      /\ \A d \in Calls(tr, "displaySuggestion") :
           tr[d].arg = IF response[i].ok /\ Len(response[i].choices) > 0
                          /\ response[i].choices[1] # undefined
                       THEN response[i].choices[1]
                       ELSE ""

\* ---------------------------------------------------------------- C9
\* C9: when a storeApiKey command completes its store with input k, the
\* store holds exactly k under apiKey, whatever it held before; the value
\* under apiKey changes in no other step; and every credential read of the
\* workflow yields the value the store holds under apiKey at that moment.
C9_StoreThenRead ==
  [][ /\ \A j \in StoreInvocations :
           (spc[j] = "secrets.store" /\ spc'[j] = "done") =>
             secretsGet(secrets', "apiKey") = input[j]
      /\ secretsGet(secrets', "apiKey") # secretsGet(secrets, "apiKey") =>
           \E j \in StoreInvocations :
             spc[j] = "secrets.store" /\ spc'[j] = "done"
      /\ \A i \in Invocations :
           (pc[i] = "secrets.get" /\ pc'[i] # "secrets.get") =>
             \E g \in Calls(trace'[i], "secrets.get") :
               /\ g = Len(trace[i]) + 1
               /\ trace'[i][g].arg = secretsGet(secrets, "apiKey")
    ]_vars

\* a store over an earlier key has completed and an invocation has read the
\* new key
C9_Witness ==
  \E j \in StoreInvocations, i \in Invocations :
    /\ spc[j] = "done" /\ Truthy(input[j])
    /\ secretsGet(secrets, "apiKey") = input[j]
    /\ \E g \in Calls(trace[i], "secrets.get") : trace[i][g].arg = input[j]
    /\ \E h \in Invocations :
         \E g \in Calls(trace[h], "secrets.get") : trace[h][g].arg = "sk-0"

\* --------------------------------------------------------------- C10
\* C10: the message of an early exit is the last thing its invocation does,
\* and the `no errors found' information is shown only when the analysis
\* returned zero diagnostics.
EarlyExitMessages ==
  { "No active editor found.",
    "This command only works with TypeScript files.",
    "No workspace folder is open.",
    "No tsconfig.json file found in the workspace.",
    "API Key not found. Please store your API Key first." }

C10_EarlyExitIsFinal ==
  \A i \in Invocations :
    LET tr == trace[i] IN
    /\ \A k \in Calls(tr, "showErrorMessage") :
         tr[k].arg \in EarlyExitMessages => k = Len(tr)
    /\ pc[i] # "rejected"
    /\ (\E k \in Calls(tr, "showInformationMessage") :
          tr[k].arg = "No TypeScript errors found.") =>
         \E g \in Calls(tr, "getSemanticDiagnostics") : tr[g].arg = "0"

\* --------------------------------------------------------------- C11
\* C11: within one invocation the steps happen in the order collect, select,
\* request, present, each at most once: the quick pick opens after the
\* diagnostics were collected, a request follows a pick, and a presentation
\* follows the settling of that invocation's request.
C11_StepOrder ==
  \A i \in Invocations :
    LET tr == trace[i] IN
    /\ \A c \in {"getSemanticDiagnostics", "showQuickPick", "picked",
                 "createChatCompletion", "settled", "displaySuggestion"} :
         Cardinality(Calls(tr, c)) <= 1
    /\ \A q \in Calls(tr, "showQuickPick") :
         \E g \in Calls(tr, "getSemanticDiagnostics") : g < q
    /\ \A p \in Calls(tr, "picked") :
         \E q \in Calls(tr, "showQuickPick") : q < p
    /\ \A r \in Calls(tr, "createChatCompletion") :
         \E p \in Calls(tr, "picked") : p < r /\ tr[p].arg # undefined
    /\ \A s \in Calls(tr, "settled") :
         \E r \in Calls(tr, "createChatCompletion") : r < s
    /\ \A d \in Calls(tr, "displaySuggestion") :
         \E s \in Calls(tr, "settled") : s < d

\* an invocation went through all four steps and ended
C11_Witness ==
  \E i \in Invocations :
    /\ pc[i] = "done"
    /\ Called(trace[i], "getSemanticDiagnostics")
    /\ Selected(trace[i])
    /\ Called(trace[i], "createChatCompletion")
    /\ Called(trace[i], "displaySuggestion")

\* --------------------------------------------------------------- C12
\* C12: getOpenAISuggestion never fails towards its caller: however the
\* request settles, the caller goes on to present the returned string, which
\* is empty when the service failed, the first candidate's content when
\* there is one, and empty when there is no first candidate or no content.
C12_RequesterNeverFails ==
  \A i \in Invocations :
    LET tr == trace[i] IN
    \A s \in Calls(tr, "settled") :
      /\ s + 1 <= Len(tr)
      /\ tr[s + 1].call = "displaySuggestion"
      /\ tr[s + 1].arg =
           IF ~response[i].ok THEN ""
           ELSE IF response[i].choices = <<>> THEN ""
           ELSE IF response[i].choices[1] = undefined THEN ""
           ELSE response[i].choices[1]
      /\ tr[s].arg = (IF response[i].ok THEN "response" ELSE "error")
      /\ pc[i] = "done"

\* a request failed and the empty string was presented; another was answered
\* without a candidate
C12_Witness ==
  \E i \in Invocations, h \in Invocations :
    /\ Called(trace[i], "settled") /\ ~response[i].ok
    /\ Called(trace[h], "settled") /\ response[h].ok
    /\ response[h].choices = <<>>

\* --------------------------------------------------------------- C13
\* C13: the stored credential changes only in the step in which a
\* storeApiKey command completes its store, and that command's input is
\* non-empty; a storeApiKey command whose input is empty or dismissed shows
\* `No API Key provided.' and leaves the store as it was; no step of a
\* getTsErrors invocation changes the store.
C13_OnlyStoreWrites ==
  [][ /\ secrets' # secrets =>
           \E j \in StoreInvocations :
             /\ spc[j] = "secrets.store" /\ spc'[j] = "done"
             /\ Truthy(input[j])
             /\ DOMAIN secrets' = {"apiKey"}
             /\ secrets'["apiKey"] = input[j]
      /\ \A j \in StoreInvocations :
           (spc[j] = "showInputBox" /\ spc'[j] # "showInputBox"
              /\ ~Truthy(input'[j])) =>
             /\ spc'[j] = "done"
             /\ secrets' = secrets
             /\ strace'[j][Len(strace'[j])] =
                  Ev("showErrorMessage", "No API Key provided.")
      /\ (\E i \in Invocations : pc'[i] # pc[i] \/ trace'[i] # trace[i]) =>
           secrets' = secrets
    ]_vars

\* a storeApiKey command got an empty or dismissed input and has ended, a
\* getTsErrors invocation has read the credential, and the store still holds
\* the key of the earlier session
C13_Witness ==
  \E j \in StoreInvocations, i \in Invocations :
    /\ spc[j] = "done" /\ ~Truthy(input[j])
    /\ Called(trace[i], "secrets.get")
    /\ Finished(i)
    /\ secrets = StoredEarlier

\* --------------------------------------------------------------- C14
\* What the items must be for the model's file and diagnostics, written out:
\* offset 16 of `let a: number = foo;' is line 0, character 16; offset 21 is
\* the start of line 1.
ExpectedPosition(d) ==
  IF d.file = undefined THEN [line |-> 0, character |-> 0]
  ELSE IF d.start = 16 THEN [line |-> 0, character |-> 16]
  ELSE [line |-> 1, character |-> 0]

ExpectedMessage(d) ==
  IF d.messageText = <<"Cannot find name 'foo'.">>
  THEN "Cannot find name 'foo'."
  ELSE IF d.messageText = <<"Cannot find global type 'Array'.">>
  THEN "Cannot find global type 'Array'."
  ELSE "Type 'string' is not assignable to type 'number'.\n  The expected type comes from 'a'."

ExpectedLabel(d) ==
  (IF ExpectedPosition(d).line = 0 THEN "Line 1: " ELSE "Line 2: ")
    \o ExpectedMessage(d)

\* C14: the quick pick is opened with exactly one item per diagnostic, in the
\* order the analysis returned them; item k carries diagnostic k's zero-based
\* line, its character, its flattened message and the label
\* `Line <line+1>: <message>'; a diagnostic without a file gets line 0 and
\* character 0.
C14_PickerItems ==
  \A i \in Invocations :
    \A q \in Calls(trace[i], "showQuickPick") :
      /\ diagnostics[i] = semanticDiagnostics
      /\ Len(errorLines[i]) = Len(semanticDiagnostics)
      /\ trace[i][q].arg = ToString(Len(semanticDiagnostics))
      /\ \A k \in 1..Len(semanticDiagnostics) :
           LET d == semanticDiagnostics[k] IN
           errorLines[i][k] =
             [label |-> ExpectedLabel(d),
              line |-> ExpectedPosition(d).line,
              character |-> ExpectedPosition(d).character,
              error |-> ExpectedMessage(d)]

\* a quick pick was opened with two items that are not in line order, the
\* second for a diagnostic without a file
C14_Witness ==
  \E i \in Invocations :
    /\ Called(trace[i], "showQuickPick")
    /\ Len(errorLines[i]) = 2
    /\ errorLines[i][1].line = 1
    /\ diagnostics[i][2].file = undefined
    /\ errorLines[i][2].line = 0

\* --------------------------------------------------------------- C15
\* the positions of the diagnostics of ds that are on a line
OnLine(ds, line) == {k \in 1..Len(ds) : ExpectedPosition(ds[k]).line = line}

\* what a lookup must return: the message of the first diagnostic on the
\* line, undefined when there is none
ExpectedLookup(ds, line) ==
  IF OnLine(ds, line) = {} THEN undefined
  ELSE ExpectedMessage(ds[CHOOSE k \in OnLine(ds, line) :
                            \A j \in OnLine(ds, line) : k <= j])

\* C15: getErrorMessageForLine returns the flattened message of the first
\* diagnostic, in the order the analysis returned them, that resolves to the
\* line (a diagnostic without a file resolves to line 0), and undefined
\* exactly when none does: for every line of the file and the line after
\* the last, and for the lookup every invocation made after a pick.
C15_FirstOnLine ==
  /\ \A line \in 0..lineCount(TsFile) :
       /\ getErrorMessageForLine(line, semanticDiagnostics)
            = ExpectedLookup(semanticDiagnostics, line)
       /\ getErrorMessageForLine(line, semanticDiagnostics) = undefined
            <=> OnLine(semanticDiagnostics, line) = {}
  /\ \A i \in Invocations :
       selectedErrorLine[i] > 0 =>
         errorMessage[i] =
           ExpectedLookup(diagnostics[i], errorLines[i][selectedErrorLine[i]].line)

\* an invocation picked the second of two diagnostics with different
\* messages on one line, and the lookup returned the first one's message
C15_Witness ==
  \E i \in Invocations :
    /\ selectedErrorLine[i] = 2
    /\ errorLines[i][1].line = errorLines[i][2].line
    /\ errorLines[i][1].error # errorLines[i][2].error
    /\ errorMessage[i] = errorLines[i][1].error

\* --------------------------------------------------------------- C16
Suspended(i) == pc[i] \in {"showQuickPick", "secrets.get", "createChatCompletion"}

\* C16: when the command is invoked again (h) while an earlier invocation (i)
\* is suspended, the step leaves every local of the earlier one as it was;
\* and the earlier one, resumed with a stored credential, issues its request
\* for the diagnostic it picked and presents what that request returned.
C16_EarlierUnaffected ==
  [][ \A i \in Invocations, h \in Invocations :
        /\ (i # h /\ Suspended(i) /\ pc[h] = "idle" /\ pc'[h] # "idle") =>
             /\ pc'[i] = pc[i] /\ trace'[i] = trace[i]
             /\ diagnostics'[i] = diagnostics[i]
             /\ errorLines'[i] = errorLines[i]
             /\ selectedErrorLine'[i] = selectedErrorLine[i]
             /\ errorMessage'[i] = errorMessage[i]
             /\ request'[i] = request[i]
        /\ (i < h /\ pc[h] # "idle" /\ pc[i] = "secrets.get"
              /\ pc'[i] # "secrets.get"
              /\ Truthy(secretsGet(secrets, "apiKey"))) =>
             /\ pc'[i] = "createChatCompletion"
             /\ request'[i].content[2] = errorLines[i][selectedErrorLine[i]].error
        /\ (i < h /\ pc[h] # "idle" /\ pc[i] = "createChatCompletion"
              /\ pc'[i] # "createChatCompletion") =>
             /\ pc'[i] = "done"
             /\ \E d \in Calls(trace'[i], "displaySuggestion") :
                  trace'[i][d].arg = suggestionOf(response'[i])
    ]_vars

\* --------------------------------------------------------------- C17
\* Every promise the workflow awaits settles: the quick pick is answered or
\* dismissed, the credential read resolves, the completion request gets a
\* response or fails.
Fairness ==
  \A i \in Invocations :
    /\ WF_vars(\E choice \in 0..MaxDiags : QuickPickAnswer(i, choice))
    /\ WF_vars(SecretsGetResolves(i))
    /\ WF_vars(\E settles \in CompletionResponses : CompletionSettles(i, settles))

\* Termination is checked from the initial states that have at most one
\* diagnostic: the workflow's control flow reads a diagnostics list only for
\* being empty or not and for the picked entry.
FairInit == Init /\ Len(semanticDiagnostics) <= 1

FairSpec == FairInit /\ [][Next]_vars /\ Fairness

\* the steps still ahead of an invocation at each point of the workflow
StepsLeft(at) ==
  CASE at = "idle" -> 4
    [] at = "showQuickPick" -> 3
    [] at = "secrets.get" -> 2
    [] at = "createChatCompletion" -> 1
    [] OTHER -> 0

\* the locals of invocation i
Locals(i) == <<pc[i], document[i], diagnostics[i], errorLines[i],
               selectedErrorLine[i], errorMessage[i], request[i],
               response[i], trace[i]>>

\* C17: every step of an invocation moves it strictly forward in the order
\* collect, select, read the credential, request, end (no loop back, no step
\* repeated), and an invocation that was started eventually ends, given that
\* every awaited promise settles.
C17_Terminates ==
  /\ [][ \A i \in Invocations :
           Locals(i)' # Locals(i) => StepsLeft(pc'[i]) < StepsLeft(pc[i]) ]_vars
  /\ \A i \in Invocations : (pc[i] # "idle") ~> Finished(i)

\* every invocation has ended, one after a failed request and one after its
\* quick pick was dismissed
C17_Witness ==
  /\ \A i \in Invocations : Finished(i)
  /\ \E i \in Invocations :
       \E s \in Calls(trace[i], "settled") : trace[i][s].arg = "error"
  /\ \E i \in Invocations :
       \E p \in Calls(trace[i], "picked") : trace[i][p].arg = undefined

\* --------------------------------------------------------------- C18
\* C18: the line text and the file text of every completion request are those
\* of the document the diagnostics were collected for, the line being the
\* picked entry's (in whichever of the two slots of the prompt each is put).
C18_SameDocument ==
  \A i \in Invocations :
    Called(trace[i], "createChatCompletion") =>
      LET line == errorLines[i][selectedErrorLine[i]].line IN
      /\ ~lineAtThrows(document[i], line)
      /\ {request[i].content[4], request[i].content[6]} =
           {lineAtText(document[i], line), getText(document[i])}

\* --------------------------------------------------------------- C19
\* C19: 'No error found on the selected line.' is never shown: for every
\* entry of an invocation's quick pick the lookup by the entry's line finds
\* a message, and an invocation that picked an entry went on to read the
\* credential.
C19_LookupFinds ==
  \A i \in Invocations :
    /\ ErrorsShown(trace[i], "No error found on the selected line.") = {}
    /\ \A k \in 1..Len(errorLines[i]) :
         Truthy(getErrorMessageForLine(errorLines[i][k].line, diagnostics[i]))
    /\ selectedErrorLine[i] > 0 =>
         /\ Truthy(errorMessage[i])
         /\ pc[i] = "secrets.get" \/ Called(trace[i], "secrets.get")

\* an entry of the file's last line was picked and the invocation waits for
\* the credential
C19_Witness ==
  \E i \in Invocations :
    /\ pc[i] = "secrets.get"
    /\ selectedErrorLine[i] > 0
    /\ errorLines[i][selectedErrorLine[i]].line = lineCount(document[i]) - 1
    /\ errorLines[i][selectedErrorLine[i]].line > 0

====
